---- MODULE Spec2Model ----
(***************************************************************************)
(* Model of generate_imbedding.py: the script walks the list faqs, asks    *)
(* the embedding API for the vector of each question, inserts the merged   *)
(* document in the collection, and finally attempts to create an index on  *)
(* the embedding field inside a try/except.                                *)
(*                                                                         *)
(* The embedding API and the MongoDB collection are the environment: a     *)
(* call to either one returns or raises, chosen nondeterministically.      *)
(* The variable calls is the environment's record of the calls it got.     *)
(***************************************************************************)
EXTENDS Integers, Sequences, FiniteSets, TLC

\* Longest input list explored.
MaxN == 3

\* Records the list faqs may hold: question and answer, both non-empty text.
\* Two records share a question, so an input list can repeat a question
\* with a different answer, or repeat a whole record as the source list does.
Records == {[question |-> "q1", answer |-> "a1"],
            [question |-> "q1", answer |-> "a2"],
            [question |-> "q2", answer |-> "a2"]}

\* All lists of at most n records.
RECURSIVE ListsUpTo(_)
ListsUpTo(n) ==
    IF n = 0 THEN {<<>>}
    ELSE LET shorter == ListsUpTo(n - 1)
         IN  shorter \cup {Append(l, r) : l \in {s \in shorter : Len(s) = n - 1}, r \in Records}

\* Vectors the embedding model can produce (fixed output dimensionality).
Vectors == {<<1, 2>>, <<3, 4>>}

\* One well-formed item of response['data'].
Item(v) == [object |-> "embedding", embedding |-> v]

\* An item without the 'embedding' key.
BadItem == [object |-> "error"]

\* Responses the embedding call can return without raising: a well-formed
\* one carries one item (or more, the first being the result); a malformed
\* one has an empty data list or a first item without the embedding key.
Responses ==
    {[data |-> <<>>], [data |-> <<BadItem>>]}
      \cup {[data |-> <<Item(v)>>] : v \in Vectors}
      \cup {[data |-> <<Item(p[1]), Item(p[2])>>] :
                p \in {q \in Vectors \X Vectors : q[1] # q[2]}}

\* Values of the loop's local names before their first assignment; none of
\* them is read before it is assigned.
NoFaq == [question |-> "", answer |-> ""]
NoResponse == [data |-> <<>>]
NoEmbedding == <<>>
NoDoc == [question |-> "", answer |-> "", embedding |-> <<>>]

\* A document the collection may already hold before the run; its content
\* equals what the run inserts for the record (q1, a1) with vector <<1, 2>>.
OldDoc == [_id |-> 1, question |-> "q1", answer |-> "a1", embedding |-> <<1, 2>>]

VARIABLES
    faqs,       \* the input list (line 24)
    store0,     \* content of the collection when the script starts
    store,      \* content of the collection, in insertion order
    nextId,     \* next ObjectId the driver generates
    it,         \* position of the for loop's iterator: records consumed
    faq,        \* loop variable
    response,   \* line 43
    embedding,  \* line 47
    doc,        \* line 50
    stdout,     \* lines printed
    calls,      \* external calls issued so far, in order
    raised,     \* the uncaught exception, "None" while there is none
    exitCode,   \* "running", "0" or "1"
    pc          \* position in the script

vars == <<faqs, store0, store, nextId, it, faq, response, embedding, doc,
          stdout, calls, raised, exitCode, pc>>

locals == <<faq, response, embedding, doc>>

Init ==
    /\ faqs \in ListsUpTo(MaxN)
    /\ store0 \in {<<>>, <<OldDoc>>}
    /\ store = store0
    /\ nextId = Len(store0) + 1
    /\ it = 0
    /\ faq = NoFaq
    /\ response = NoResponse
    /\ embedding = NoEmbedding
    /\ doc = NoDoc
    /\ stdout = <<>>
    /\ calls = <<>>
    /\ raised = "None"
    /\ exitCode = "running"
    /\ pc = "for"

\* An exception that nothing catches: the interpreter prints the traceback
\* and the process ends with status 1.
Uncaught(exc) ==
    /\ raised' = exc
    /\ exitCode' = "1"
    /\ pc' = "aborted"

\* Variant of ForNext: the list is walked from its end (reversed(faqs)).
ForNext_Reversed ==
    /\ pc = "for"
    /\ it < Len(faqs)
    /\ faq' = faqs[Len(faqs) - it]
    /\ it' = it + 1
    /\ pc' = "embed"
    /\ UNCHANGED <<faqs, store0, store, nextId, response, embedding, doc,
                   stdout, calls, raised, exitCode>>

\* Line 41, the iterator yields the next record.
ForNext ==
    /\ pc = "for"
    /\ it < Len(faqs)
    /\ faq' = faqs[it + 1]
    /\ it' = it + 1
    /\ pc' = "embed"
    /\ UNCHANGED <<faqs, store0, store, nextId, response, embedding, doc,
                   stdout, calls, raised, exitCode>>

\* Variant of ForExhausted: the index is created only when there was
\* something to insert (an "if faqs:" around lines 61-65).
ForExhausted_SkipsIndexWhenEmpty ==
    /\ pc = "for"
    /\ it >= Len(faqs)
    /\ IF Len(faqs) = 0
       THEN pc' = "done" /\ exitCode' = "0"
       ELSE pc' = "index" /\ UNCHANGED exitCode
    /\ UNCHANGED <<faqs, store0, store, nextId, it, locals, stdout, calls,
                   raised>>

\* Line 41, the iterator is exhausted: control reaches the try of line 61.
ForExhausted ==
    /\ pc = "for"
    /\ it >= Len(faqs)
    /\ pc' = "index"
    /\ UNCHANGED <<faqs, store0, store, nextId, it, locals, stdout, calls,
                   raised, exitCode>>

\* Lines 43-46, openai.Embedding.create(input=faq["question"], ...) returns.
EmbeddingReturns ==
    /\ pc = "embed"
    /\ \E r \in Responses :
          /\ response' = r
          /\ calls' = Append(calls, [op |-> "embed", rec |-> it,
                                     input |-> faq["question"], ok |-> TRUE, ret |-> r])
    /\ pc' = "extract"
    /\ UNCHANGED <<faqs, store0, store, nextId, it, faq, embedding, doc,
                   stdout, raised, exitCode>>

\* Variant of EmbeddingRaises: a handler in the loop swallows the error and
\* the loop goes on with the next record (except: continue).
EmbeddingRaises_Continue ==
    /\ pc = "embed"
    /\ calls' = Append(calls, [op |-> "embed", rec |-> it,
                               input |-> faq["question"], ok |-> FALSE, ret |-> NoResponse])
    /\ pc' = "for"
    /\ UNCHANGED <<faqs, store0, store, nextId, it, locals, stdout, raised,
                   exitCode>>

\* Lines 43-46, the call raises; no handler encloses it.
EmbeddingRaises ==
    /\ pc = "embed"
    /\ calls' = Append(calls, [op |-> "embed", rec |-> it,
                               input |-> faq["question"], ok |-> FALSE, ret |-> NoResponse])
    /\ Uncaught("APIError")
    /\ UNCHANGED <<faqs, store0, store, nextId, it, locals, stdout>>

\* response['data'][0]['embedding'] can be evaluated.
WellFormed(r) ==
    /\ Len(r["data"]) >= 1
    /\ "embedding" \in DOMAIN r["data"][1]

\* Variant of FirstEmbedding: the last item's vector, response['data'][-1].
FirstEmbedding_Last(r) == r["data"][Len(r["data"])]["embedding"]

\* The value of response['data'][0]['embedding'] (lists are 0-indexed in
\* the source, sequences 1-indexed here).
FirstEmbedding(r) == r["data"][1]["embedding"]

\* Line 47.
ExtractEmbedding ==
    /\ pc = "extract"
    /\ IF WellFormed(response)
       THEN /\ embedding' = FirstEmbedding(response)
            /\ pc' = "doc"
            /\ UNCHANGED <<raised, exitCode>>
       ELSE /\ Uncaught(IF Len(response["data"]) = 0 THEN "IndexError" ELSE "KeyError")
            /\ UNCHANGED embedding
    /\ UNCHANGED <<faqs, store0, store, nextId, it, faq, response, doc,
                   stdout, calls>>

\* Variant of MakeDoc: the embedding never reaches the document.
MakeDoc_NoEmbedding(f, e) ==
    [question |-> f["question"], answer |-> f["answer"], embedding |-> <<>>]

\* The dict literal of lines 50-54.
MakeDoc(f, e) ==
    [question |-> f["question"], answer |-> f["answer"], embedding |-> e]

\* Lines 50-54.
CreateDocument ==
    /\ pc = "doc"
    /\ doc' = MakeDoc(faq, embedding)
    /\ pc' = "insert"
    /\ UNCHANGED <<faqs, store0, store, nextId, it, faq, response, embedding,
                   stdout, calls, raised, exitCode>>

\* The document insert_one sends: the driver adds the _id it generates to
\* the dict (which has none) before it writes.
WithId(d, id) ==
    [_id |-> id, question |-> d["question"], answer |-> d["answer"],
     embedding |-> d["embedding"]]

\* Variant of Persist: an upsert keyed on the question (replace_one with
\* upsert=True) instead of an insert.
Persist_Upsert(s, d) ==
    IF \E p \in 1..Len(s) : s[p]["question"] = d["question"]
    THEN LET p == CHOOSE q \in 1..Len(s) : s[q]["question"] = d["question"]
         IN  [s EXCEPT ![p] = d]
    ELSE Append(s, d)

\* The collection after it accepted the document d.
Persist(s, d) == Append(s, d)

\* Lines 57-58, collection.insert_one(doc) succeeds and the id is printed.
InsertReturns ==
    /\ pc = "insert"
    /\ doc' = WithId(doc, nextId)
    /\ nextId' = nextId + 1
    /\ store' = Persist(store, doc')
    /\ calls' = Append(calls, [op |-> "insert", rec |-> it, doc |-> doc', ok |-> TRUE])
    /\ stdout' = Append(stdout, <<"Document inserted with id: ", nextId>>)
    /\ pc' = "for"
    /\ UNCHANGED <<faqs, store0, it, faq, response, embedding, raised, exitCode>>

\* Variant of InsertRaises: the failed insert is issued once more before
\* the error is let through.
InsertRaises_Retry ==
    /\ pc = "insert"
    /\ doc' = WithId(doc, nextId)
    /\ nextId' = nextId + 1
    /\ calls' = Append(calls, [op |-> "insert", rec |-> it, doc |-> doc', ok |-> FALSE])
    /\ IF calls # <<>> /\ calls[Len(calls)]["op"] = "insert"
       THEN Uncaught("PyMongoError")
       ELSE pc' = "insert" /\ UNCHANGED <<raised, exitCode>>
    /\ UNCHANGED <<faqs, store0, store, it, faq, response, embedding, stdout>>

\* Variant of InsertRaises: a handler in the loop swallows the error and the
\* loop goes on with the next record (except: continue).
InsertRaises_Continue ==
    /\ pc = "insert"
    /\ doc' = WithId(doc, nextId)
    /\ nextId' = nextId + 1
    /\ calls' = Append(calls, [op |-> "insert", rec |-> it, doc |-> doc', ok |-> FALSE])
    /\ pc' = "for"
    /\ UNCHANGED <<faqs, store0, store, it, faq, response, embedding, stdout,
                   raised, exitCode>>

\* Variant of InsertRaises: a handler in the loop leaves the loop and the
\* script goes on to the index creation (except: break).
InsertRaises_Break ==
    /\ pc = "insert"
    /\ doc' = WithId(doc, nextId)
    /\ nextId' = nextId + 1
    /\ calls' = Append(calls, [op |-> "insert", rec |-> it, doc |-> doc', ok |-> FALSE])
    /\ pc' = "index"
    /\ UNCHANGED <<faqs, store0, store, it, faq, response, embedding, stdout,
                   raised, exitCode>>

\* Line 57, the collection rejects the write and insert_one raises; no
\* handler encloses it.
InsertRaises ==
    /\ pc = "insert"
    /\ doc' = WithId(doc, nextId)
    /\ nextId' = nextId + 1
    /\ calls' = Append(calls, [op |-> "insert", rec |-> it, doc |-> doc', ok |-> FALSE])
    /\ Uncaught("PyMongoError")
    /\ UNCHANGED <<faqs, store0, store, it, faq, response, embedding, stdout>>

\* Lines 61-63, create_index succeeds; the script ends.
CreateIndexReturns ==
    /\ pc = "index"
    /\ calls' = Append(calls, [op |-> "index", rec |-> it, ok |-> TRUE])
    /\ stdout' = Append(stdout, <<"Vector search index created successfully">>)
    /\ exitCode' = "0"
    /\ pc' = "done"
    /\ UNCHANGED <<faqs, store0, store, nextId, it, locals, raised>>

\* Variant of CreateIndexRaises: no handler, the error ends the script.
CreateIndexRaises_Propagates ==
    /\ pc = "index"
    /\ calls' = Append(calls, [op |-> "index", rec |-> it, ok |-> FALSE])
    /\ Uncaught("PyMongoError")
    /\ UNCHANGED <<faqs, store0, store, nextId, it, locals, stdout>>

\* Lines 61-65, create_index raises, the except clause prints the error;
\* the script ends.
CreateIndexRaises ==
    /\ pc = "index"
    /\ calls' = Append(calls, [op |-> "index", rec |-> it, ok |-> FALSE])
    /\ stdout' = Append(stdout, <<"Error creating index: ">>)
    /\ exitCode' = "0"
    /\ pc' = "done"
    /\ UNCHANGED <<faqs, store0, store, nextId, it, locals, raised>>

Next ==
    \/ ForNext
    \/ ForExhausted
    \/ EmbeddingReturns
    \/ EmbeddingRaises
    \/ ExtractEmbedding
    \/ CreateDocument
    \/ InsertReturns
    \/ InsertRaises
    \/ CreateIndexReturns
    \/ CreateIndexRaises

Spec == Init /\ [][Next]_vars

----------------------------------------------------------------------------
(* Vocabulary of the properties. *)

IsEmbed(c) == c["op"] = "embed"
IsInsert(c) == c["op"] = "insert"
IsIndex(c) == c["op"] = "index"
IsOkInsert(c) == c["op"] = "insert" /\ c["ok"]

EmbedCalls == SelectSeq(calls, IsEmbed)
InsertCalls == SelectSeq(calls, IsInsert)
OkInserts == SelectSeq(calls, IsOkInsert)
IndexCalls == SelectSeq(calls, IsIndex)

\* Number of records of the input list.
N == Len(faqs)

\* Documents the run added to the collection, in collection order.
Added == SubSeq(store, Len(store0) + 1, Len(store))

\* The for loop ran over the whole list.
LoopCompleted == pc \in {"index", "done"}

\* A response from which line 47 cannot take a vector.
Malformed(r) == Len(r["data"]) = 0 \/ "embedding" \notin DOMAIN r["data"][1]

\* The j-th external call is a failure of the loop: it raised, or it is an
\* embedding call whose malformed response line 47 has already read.
FailedAt(j) ==
    \/ calls[j]["op"] \in {"embed", "insert"} /\ ~calls[j]["ok"]
    \/ /\ calls[j]["op"] = "embed"
       /\ calls[j]["ok"]
       /\ Malformed(calls[j]["ret"])
       /\ ~(j = Len(calls) /\ pc = "extract")

\* C1: the store-insert calls are for records 1, 2, 3, ... in turn (none
\* skipped, none repeated), each carries a non-empty embedding, and once the
\* loop has run over the whole list (no call failed) there are exactly N of
\* them, all successful, with N documents added, each with a non-empty
\* embedding.
C1_ExactlyNInserts ==
    /\ Len(InsertCalls) <= N
    /\ \A k \in 1..Len(InsertCalls) :
          /\ InsertCalls[k]["rec"] = k
          /\ Len(InsertCalls[k]["doc"]["embedding"]) > 0
    /\ \A k \in 1..Len(Added) : Len(Added[k]["embedding"]) > 0
    /\ LoopCompleted =>
          /\ Len(InsertCalls) = N
          /\ Len(OkInserts) = N
          /\ Len(Added) = N

C1_Witness ==
    /\ pc = "done"
    /\ N >= 2
    /\ Len(InsertCalls) = N
    /\ \A k \in 1..N : Len(Added[k]["embedding"]) > 0

\* C2: every successful insert is immediately preceded by the embedding call
\* of the same record, made with that record's question; the inserted
\* document's embedding is the first vector of that call's response, its
\* question and answer are the record's, and the document is in the store.
C2_EmbeddingIsFirstVector ==
    \A j \in 1..Len(calls) :
        (calls[j]["op"] = "insert" /\ calls[j]["ok"]) =>
            /\ j > 1
            /\ LET e == calls[j - 1]
                   d == calls[j]["doc"]
                   r == calls[j]["rec"]
               IN  /\ e["op"] = "embed"
                   /\ e["ok"]
                   /\ e["rec"] = r
                   /\ r \in 1..N
                   /\ e["input"] = faqs[r]["question"]
                   /\ Len(e["ret"]["data"]) >= 1
                   /\ d["embedding"] = e["ret"]["data"][1]["embedding"]
                   /\ d["question"] = faqs[r]["question"]
                   /\ d["answer"] = faqs[r]["answer"]
                   /\ \E p \in 1..Len(store) : store[p] = d

C2_Witness ==
    /\ pc = "done"
    /\ N >= 2
    /\ Len(Added) = N
    /\ Added[1]["embedding"] # Added[2]["embedding"]
    /\ \E j \in 1..Len(calls) :
          /\ calls[j]["op"] = "embed"
          /\ Len(calls[j]["ret"]["data"]) = 2

\* C3: when the embedding call of record k raised, the run has ended, the
\* documents added are those of records 1..k-1, no insert was made for a
\* record k..N and no embedding call for a record k+1..N.
C3_EmbeddingFailureStopsAtK ==
    \A j \in 1..Len(calls) :
        (calls[j]["op"] = "embed" /\ ~calls[j]["ok"]) =>
            LET k == calls[j]["rec"]
            IN  /\ k \in 1..N
                /\ pc = "aborted"
                /\ Len(Added) = k - 1
                /\ \A m \in 1..(k - 1) :
                      /\ Added[m]["question"] = faqs[m]["question"]
                      /\ Added[m]["answer"] = faqs[m]["answer"]
                /\ \A i \in 1..Len(calls) :
                      /\ calls[i]["op"] = "insert" => calls[i]["rec"] < k
                      /\ calls[i]["op"] = "embed" => calls[i]["rec"] <= k

C3_Witness ==
    /\ raised = "APIError"
    /\ N = 3
    /\ it = 2
    /\ Len(Added) = 1

\* C4: once index creation has been attempted, whether it succeeded or
\* raised, the script has ended normally (status 0, no uncaught exception)
\* and the collection holds what it held when the loop completed: the
\* initial documents followed by the N inserted ones.
C4_IndexFailureHarmless ==
    /\ pc = "done" => exitCode = "0"
    /\ \A j \in 1..Len(calls) :
          calls[j]["op"] = "index" =>
              /\ pc = "done"
              /\ exitCode = "0"
              /\ raised = "None"
              /\ Len(store) = Len(store0) + N
              /\ SubSeq(store, 1, Len(store0)) = store0
              /\ Len(OkInserts) = N
              /\ \A k \in 1..N : Added[k] = OkInserts[k]["doc"]

C4_Witness ==
    /\ pc = "done"
    /\ exitCode = "0"
    /\ N >= 1
    /\ Len(Added) = N
    /\ ~calls[Len(calls)]["ok"]
    /\ calls[Len(calls)]["op"] = "index"

\* C5: with an empty input list there is never an embedding call nor an
\* insert call, the run never aborts, and when it has terminated index
\* creation has been attempted exactly once.
C5_EmptyInput ==
    N = 0 =>
        /\ Len(EmbedCalls) = 0
        /\ Len(InsertCalls) = 0
        /\ Len(IndexCalls) <= 1
        /\ pc # "aborted"
        /\ exitCode # "running" => (pc = "done" /\ Len(IndexCalls) = 1)

C5_Witness ==
    /\ N = 0
    /\ pc = "done"
    /\ Len(calls) = 1
    /\ calls[1]["op"] = "index"

\* C6: a failure in the loop (an embedding call or an insert that raised, a
\* malformed response read by line 47) ends the run with status 1; the
\* failed call is the last external call ever issued, and no earlier call
\* was the same operation on the same record (no retry).
C6_LoopFailureIsFatal ==
    /\ raised # "None" => (pc = "aborted" /\ exitCode = "1")
    /\ \A j \in 1..Len(calls) :
          FailedAt(j) =>
              /\ j = Len(calls)
              /\ pc = "aborted"
              /\ exitCode = "1"
              /\ raised # "None"
              /\ \A i \in 1..(j - 1) :
                    ~(calls[i]["op"] = calls[j]["op"] /\ calls[i]["rec"] = calls[j]["rec"])

C6_Witness ==
    /\ raised \in {"IndexError", "KeyError"}
    /\ it >= 2
    /\ it < N
    /\ pc = "aborted"
    /\ FailedAt(Len(calls))

\* C7: when the insert of record k raised, the documents of records 1..k-1
\* are in the store exactly as they were inserted (after the untouched
\* initial documents), the document of record k is not in the store although
\* its embedding call was made, and no call was made for a record k+1..N.
C7_InsertFailureNoRollback ==
    \A j \in 1..Len(calls) :
        (calls[j]["op"] = "insert" /\ ~calls[j]["ok"]) =>
            LET k == calls[j]["rec"]
            IN  /\ k \in 1..N
                /\ pc = "aborted"
                /\ Len(store) = Len(store0) + k - 1
                /\ SubSeq(store, 1, Len(store0)) = store0
                /\ Len(OkInserts) = k - 1
                /\ \A m \in 1..(k - 1) :
                      /\ OkInserts[m]["rec"] = m
                      /\ Added[m] = OkInserts[m]["doc"]
                /\ \A p \in 1..Len(store) : store[p] # calls[j]["doc"]
                /\ \E i \in 1..(j - 1) :
                      calls[i]["op"] = "embed" /\ calls[i]["ok"] /\ calls[i]["rec"] = k
                /\ \A i \in 1..Len(calls) : calls[i]["rec"] <= k

C7_Witness ==
    /\ raised = "PyMongoError"
    /\ N = 3
    /\ it = 2
    /\ Len(Added) = 1
    /\ store0 # <<>>

\* C8: the calls of the loop alternate, embedding call then insert, record
\* after record in list order: the (2i-1)-th call is the embedding call of
\* record i with its question, the 2i-th the insert of record i; the
\* embedding calls outnumber the inserts by 0 or 1; the documents added are
\* in the store in input-list order.
C8_SequentialInOrder ==
    /\ \A j \in 1..Len(calls) :
          calls[j]["op"] # "index" =>
              LET i == (j + 1) \div 2
              IN  /\ i \in 1..N
                  /\ calls[j]["rec"] = i
                  /\ calls[j]["op"] = (IF j % 2 = 1 THEN "embed" ELSE "insert")
                  /\ calls[j]["op"] = "embed" => calls[j]["input"] = faqs[i]["question"]
                  /\ calls[j]["op"] = "insert" =>
                        /\ calls[j]["doc"]["question"] = faqs[i]["question"]
                        /\ calls[j]["doc"]["answer"] = faqs[i]["answer"]
    /\ Len(EmbedCalls) - Len(InsertCalls) \in {0, 1}
    /\ Len(Added) <= N
    /\ \A k \in 1..Len(Added) :
          /\ Added[k]["question"] = faqs[k]["question"]
          /\ Added[k]["answer"] = faqs[k]["answer"]

C8_Witness ==
    /\ pc = "embed"
    /\ it = 3
    /\ Len(calls) = 4
    /\ Len(Added) = 2
    /\ faqs[1] # faqs[2]
    /\ faqs[2] # faqs[3]

\* C9: index creation is attempted at most once, as the last call of the
\* run, and only after all N records were inserted; it has been attempted
\* exactly once when the script is done, and not at all when the loop
\* aborted; when control stands at the index creation all N inserts are made.
C9_IndexOnlyAfterLoop ==
    /\ Len(IndexCalls) <= 1
    /\ \A j \in 1..Len(calls) :
          calls[j]["op"] = "index" =>
              /\ j = Len(calls)
              /\ j = 2 * N + 1
              /\ Len(OkInserts) = N
              /\ Len(InsertCalls) = N
              /\ raised = "None"
    /\ pc = "index" => (Len(OkInserts) = N /\ Len(IndexCalls) = 0)
    /\ pc = "done" => Len(IndexCalls) = 1
    /\ (pc = "aborted" \/ raised # "None") => Len(IndexCalls) = 0

C9_Witness ==
    /\ pc = "done"
    /\ N >= 2
    /\ Len(calls) = 2 * N + 1
    /\ calls[Len(calls)]["op"] = "index"
    /\ calls[Len(calls)]["ok"]
    /\ calls[Len(calls) - 1]["op"] = "insert"

\* C10: the documents the store held before the run stay where and as they
\* were; every successful insert adds one document, after the others, with
\* an identifier no other document has, whatever the store or the list
\* already holds; a run whose loop completed has added exactly N documents.
C10_UnconditionalInsert ==
    /\ Len(store) = Len(store0) + Len(OkInserts)
    /\ SubSeq(store, 1, Len(store0)) = store0
    /\ \A k \in 1..Len(Added) : Added[k] = OkInserts[k]["doc"]
    /\ \A p, q \in 1..Len(store) : p # q => store[p]["_id"] # store[q]["_id"]
    /\ LoopCompleted => Len(store) = Len(store0) + N

C10_Witness ==
    /\ pc = "done"
    /\ store0 = <<OldDoc>>
    /\ N >= 2
    /\ faqs[1] = faqs[2]
    /\ Len(store) = 1 + N
    /\ \A f \in {"question", "answer", "embedding"} :
          store[1][f] = store[2][f] /\ store[2][f] = store[3][f]

====
